---- MODULE Spec2Model ----
(***************************************************************************)
(* Model of the mixer broadcaster command line client                      *)
(* (src/broadcaster/cli.py) and of the Mixer test case orchestration       *)
(* (src/tests/mixer_testcase.py).                                          *)
(*                                                                         *)
(* Spec / FairSpec         : one run of cli.py (one-shot room command,     *)
(*                           one-shot client command or interactive loop)  *)
(*                           with the consumer thread of every CliClient,  *)
(*                           the transport of client.Client and the server *)
(* TestSpec / TestFairSpec : one run of a MixerTestCase                    *)
(*                           (setUp, test body, tearDown)                  *)
(*                                                                         *)
(* Text is a sequence of characters, a character a one-element string;     *)
(* "eacute" stands for the character U+00E9.                               *)
(***************************************************************************)
EXTENDS Integers, Sequences, FiniteSets, TLC

\* ------------------------------------------------------------------ bounds
MaxClients == 2     \* CliClient objects created in one run
MaxInputs == 2      \* lines read by the interactive loop in one run
MaxNames == 2       \* room names given to a one-shot room command
MaxLog == 2         \* commands in one substream of a replica's history

\* -------------------------------------------------------------- variables
VARIABLES
    mode,       \* which entry of cli.py runs: "room", "client", "interactive"
    args,       \* the parsed arguments: [command, name]
    pc,         \* position of the main thread
    client,     \* the local variable `client` of the running function (0: None)
    idx,        \* position of the `for name in args.name` loop
    cmd,        \* interactive loop: [command, command_args] being dispatched
    exc,        \* exception propagating in the main thread ("none" if none)
    last,       \* outcome of the last statement of the main thread
    nin,        \* lines read so far by the interactive loop
    nclients,   \* CliClient objects created so far
    clients,    \* the CliClient objects, by identity 1..MaxClients
    tpc,        \* test case: position of the test runner
    tst         \* test case: the state of the MixerTestCase run

vars == <<mode, args, pc, client, idx, cmd, exc, last, nin, nclients, clients, tpc, tst>>

\* ------------------------------------------------------------------- text
CodePoint ==
    " " :> 32 @@ "<" :> 60 @@ ">" :> 62 @@ "a" :> 97 @@ "b" :> 98 @@ "c" :> 99 @@
    "d" :> 100 @@ "e" :> 101 @@ "h" :> 104 @@ "i" :> 105 @@ "j" :> 106 @@
    "l" :> 108 @@ "m" :> 109 @@ "n" :> 110 @@ "o" :> 111 @@ "p" :> 112 @@
    "r" :> 114 @@ "s" :> 115 @@ "t" :> 116 @@ "v" :> 118 @@ "x" :> 120 @@
    "eacute" :> 233

\* str.encode(): the UTF-8 bytes of one character, then of a text
Utf8Char(ch) ==
    LET cp == CodePoint[ch]
    IN  IF cp < 128 THEN <<cp>>
        ELSE <<192 + (cp \div 64), 128 + (cp % 64)>>

RECURSIVE Encode(_)
Encode(s) == IF s = <<>> THEN <<>> ELSE Utf8Char(Head(s)) \o Encode(Tail(s))

\* str.startswith
StartsWith(s, prefix) ==
    /\ Len(prefix) <= Len(s)
    /\ SubSeq(s, 1, Len(prefix)) = prefix

\* str.split(): the words of a text, separated by runs of blanks
RECURSIVE SplitFrom(_, _, _)
SplitFrom(s, word, acc) ==
    IF s = <<>> THEN (IF word = <<>> THEN acc ELSE Append(acc, word))
    ELSE IF Head(s) = " "
         THEN SplitFrom(Tail(s), <<>>, IF word = <<>> THEN acc ELSE Append(acc, word))
         ELSE SplitFrom(Tail(s), Append(word, Head(s)), acc)

Split(s) == SplitFrom(s, <<>>, <<>>)

\* [c for c in seq if P(c)], in order
RECURSIVE Filter(_, _)
Filter(seq, prefix) ==
    IF seq = <<>> THEN <<>>
    ELSE (IF StartsWith(Head(seq), prefix) THEN <<Head(seq)>> ELSE <<>>)
         \o Filter(Tail(seq), prefix)

\* --------------------------------------------------------------- commands
\* the list `commands` of cli.py; "help" "exit" are adjacent string
\* literals without a comma and so are one entry, "helpexit"
commands == <<
    <<"c","o","n","n","e","c","t">>,
    <<"d","i","s","c","o","n","n","e","c","t">>,
    <<"l","i","s","t","r","o","o","m","s">>,
    <<"j","o","i","n"," ","<","r","o","o","m","n","a","m","e",">">>,
    <<"l","e","a","v","e"," ","<","r","o","o","m","n","a","m","e",">">>,
    <<"l","i","s","t","j","o","i","n","e","d","c","l","i","e","n","t","s">>,
    <<"l","i","s","t","a","l","l","c","l","i","e","n","t","s">>,
    <<"s","e","t","c","l","i","e","n","t","n","a","m","e"," ","<","c","l","i","e","n","t","n","a","m","e",">">>,
    <<"l","i","s","t","r","o","o","m","c","l","i","e","n","t","s"," ","<","r","o","o","m","n","a","m","e",">">>,
    <<"h","e","l","p","e","x","i","t">>
>>

W_connect == <<"c","o","n","n","e","c","t">>
W_disconnect == <<"d","i","s","c","o","n","n","e","c","t">>
W_exit == <<"e","x","i","t">>
W_help == <<"h","e","l","p">>
W_listrooms == <<"l","i","s","t","r","o","o","m","s">>
W_listroomclients == <<"l","i","s","t","r","o","o","m","c","l","i","e","n","t","s">>
W_listjoinedclients == <<"l","i","s","t","j","o","i","n","e","d","c","l","i","e","n","t","s">>
W_listallclients == <<"l","i","s","t","a","l","l","c","l","i","e","n","t","s">>
W_join == <<"j","o","i","n">>
W_leave == <<"l","e","a","v","e">>
W_setclientname == <<"s","e","t","c","l","i","e","n","t","n","a","m","e">>

\* the lines a user types at the prompt of the interactive loop
Inputs == {
    <<>>,
    <<"c","o","n">>,
    W_disconnect,
    W_listrooms,
    <<"l","i","s","t","r","o","o","m","c","l","i","e","n","t","s"," ","a">>,
    <<"l","i","s","t","r","o","o","m","c">>,
    <<"l">>,
    W_exit,
    W_help,
    <<"x">>,
    <<"j","o","i","n"," ","eacute">>
}

\* the room names of a one-shot room command
RoomNames == { <<"a">>, <<"b">>, <<"eacute">> }

RECURSIVE SeqsUpTo(_, _)
SeqsUpTo(S, n) ==
    IF n = 0 THEN { <<>> }
    ELSE LET shorter == SeqsUpTo(S, n - 1)
         IN  shorter \cup { Append(s, x) : s \in { t \in shorter : Len(t) = n - 1 }, x \in S }

\* common.Command(type, payload)
Command(type, payload) == [type |-> type, payload |-> payload]
NoCommand == Command("NONE", <<>>)
ConnectionLost == Command("CONNECTION_LOST", <<>>)

\* ------------------------------------------------- client.Client (transport)
ClientIds == 1..MaxClients

\* a CliClient that has not been created yet
Absent == [
    connected |-> FALSE, terminate |-> FALSE,
    pending |-> <<>>, sent |-> <<>>, received |-> <<>>, replied |-> 0,
    link |-> "none", lostSynth |-> FALSE,
    cpc |-> "none", cur |-> NoCommand,
    connectCalls |-> 0, disconnectCalls |-> 0, lostSeen |-> 0, printed |-> 0 ]

\* Client.isConnected()
IsConnected(cs, c) == cs[c].connected

\* Client.connect(), when the server accepts the connection
Connect(cs, c) ==
    [cs EXCEPT ![c].connected = TRUE, ![c].link = "up", ![c].connectCalls = @ + 1]

\* Client.connect(), when it raises: no connection is established
ConnectFails(cs, c) == [cs EXCEPT ![c].connectCalls = @ + 1]

\* Client.disconnect(): closes the connection, marks connected = false; idempotent
Disconnect(cs, c) ==
    [cs EXCEPT ![c].connected = FALSE,
               ![c].link = IF @ = "none" THEN "none" ELSE "down",
               ![c].disconnectCalls = @ + 1]

\* Client.addCommand(command) on a client that is not connected is rejected
AddCommandRejected(cs, c) == ~cs[c].connected

\* Client.addCommand(command): enqueues the command on the outbound queue
AddCommand(cs, c, command) ==
    IF AddCommandRejected(cs, c) THEN cs
    ELSE [cs EXCEPT ![c].pending = Append(@, command)]

\* Client.joinRoom, leaveRoom, setClientName: a command built and posted
JoinRoom(cs, c, name) == AddCommand(cs, c, Command("JOIN_ROOM", Encode(name)))
LeaveRoom(cs, c, name) == AddCommand(cs, c, Command("LEAVE_ROOM", Encode(name)))
SetClientName(cs, c, name) == AddCommand(cs, c, Command("SET_CLIENT_NAME", Encode(name)))

\* ------------------------------------------------------------- CliClient
\* CliClient.__init__: terminate = False, and the consumer thread is started
CliClientInit(cs, c) == [cs EXCEPT ![c] = [Absent EXCEPT !.cpc = "while"]]

\* CliClient.post_command
PostCommand(cs, c, command) == AddCommand(cs, c, command)

ListRooms(cs, c) == PostCommand(cs, c, Command("LIST_ROOMS", <<>>))
DeleteRoom(cs, c, name) == PostCommand(cs, c, Command("DELETE_ROOM", Encode(name)))
ClearRoom(cs, c, name) == PostCommand(cs, c, Command("CLEAR_ROOM", Encode(name)))
ListRoomClients(cs, c, name) == PostCommand(cs, c, Command("LIST_ROOM_CLIENTS", Encode(name)))
ListClients(cs, c) == PostCommand(cs, c, Command("LIST_CLIENTS", <<>>))
ListAllClients(cs, c) == PostCommand(cs, c, Command("LIST_ALL_CLIENTS", <<>>))

\* CliClient.consume, `while not self.terminate`
ConsumeWhile(c) ==
    /\ clients[c].cpc = "while"
    /\ clients' = [clients EXCEPT ![c].cpc = IF clients[c].terminate THEN "done" ELSE "poll"]
    /\ UNCHANGED <<mode, args, pc, client, idx, cmd, exc, last, nin, nclients, tpc, tst>>

\* Client.consume_one(): the next buffered inbound command, or None; never blocks
ConsumeOne(cs, c) ==
    IF cs[c].received = <<>>
    THEN [cs EXCEPT ![c].cur = NoCommand]
    ELSE [cs EXCEPT ![c].cur = Head(cs[c].received),
                    ![c].received = Tail(@),
                    ![c].lostSeen = IF Head(cs[c].received) = ConnectionLost THEN @ + 1 ELSE @]

\* ConsumePoll with the consumer waiting for the outbound queue to drain
ConsumePollWaits(c) ==
    /\ clients[c].cpc = "poll"
    /\ clients[c].pending = <<>>
    /\ LET cs == ConsumeOne(clients, c)
       IN  clients' = [cs EXCEPT ![c].cpc = IF cs[c].cur = NoCommand THEN "sleep" ELSE "got"]
    /\ UNCHANGED <<mode, args, pc, client, idx, cmd, exc, last, nin, nclients, tpc, tst>>

\* CliClient.consume, `received, _ = super().consume_one()`
ConsumePoll(c) ==
    /\ clients[c].cpc = "poll"
    /\ LET cs == ConsumeOne(clients, c)
       IN  clients' = [cs EXCEPT ![c].cpc = IF cs[c].cur = NoCommand THEN "sleep" ELSE "got"]
    /\ UNCHANGED <<mode, args, pc, client, idx, cmd, exc, last, nin, nclients, tpc, tst>>

\* ConsumeSleep with the loop left after the first empty poll
ConsumeSleepExits(c) ==
    /\ clients[c].cpc = "sleep"
    /\ clients' = [clients EXCEPT ![c].cpc = "done"]
    /\ UNCHANGED <<mode, args, pc, client, idx, cmd, exc, last, nin, nclients, tpc, tst>>

\* CliClient.consume, `time.sleep(0.1)`: one polling interval, then retry
ConsumeSleep(c) ==
    /\ clients[c].cpc = "sleep"
    /\ clients' = [clients EXCEPT ![c].cpc = "while"]
    /\ UNCHANGED <<mode, args, pc, client, idx, cmd, exc, last, nin, nclients, tpc, tst>>

\* ConsumeHandle without the call of disconnect() on CONNECTION_LOST
ConsumeHandleNoDisconnect(c) ==
    /\ clients[c].cpc = "got"
    /\ clients' = [clients EXCEPT ![c].cpc = "while", ![c].printed = @ + 1,
                                  ![c].cur = NoCommand]
    /\ UNCHANGED <<mode, args, pc, client, idx, cmd, exc, last, nin, nclients, tpc, tst>>

\* CliClient.consume, a command was received: disconnect on CONNECTION_LOST, print
ConsumeHandle(c) ==
    /\ clients[c].cpc = "got"
    /\ LET cs == IF clients[c].cur.type = "CONNECTION_LOST"
                 THEN Disconnect(clients, c) ELSE clients
       IN  clients' = [cs EXCEPT ![c].cpc = "while", ![c].printed = @ + 1,
                                 ![c].cur = NoCommand]
    /\ UNCHANGED <<mode, args, pc, client, idx, cmd, exc, last, nin, nclients, tpc, tst>>

\* ---------------------------------------------- transport task and server
\* the transport sends the head of the outbound queue
Transmit(c) ==
    /\ clients[c].connected
    /\ clients[c].link = "up"
    /\ clients[c].pending # <<>>
    /\ clients' = [clients EXCEPT ![c].sent = Append(@, Head(clients[c].pending)),
                                  ![c].pending = Tail(@)]
    /\ UNCHANGED <<mode, args, pc, client, idx, cmd, exc, last, nin, nclients, tpc, tst>>

\* the server's reply to the next command it received arrives in the inbound buffer
ServerReply(c) ==
    /\ clients[c].connected
    /\ clients[c].link = "up"
    /\ clients[c].replied < Len(clients[c].sent)
    /\ clients' = [clients EXCEPT
           ![c].received = Append(@, Command(clients[c].sent[clients[c].replied + 1].type, <<>>)),
           ![c].replied = @ + 1]
    /\ UNCHANGED <<mode, args, pc, client, idx, cmd, exc, last, nin, nclients, tpc, tst>>

\* the server closes the connection
ServerClose(c) ==
    /\ clients[c].link = "up"
    /\ clients' = [clients EXCEPT ![c].link = "closed"]
    /\ UNCHANGED <<mode, args, pc, client, idx, cmd, exc, last, nin, nclients, tpc, tst>>

\* the transport detects the closed connection and synthesizes CONNECTION_LOST, once
DetectLost(c) ==
    /\ clients[c].connected
    /\ clients[c].link = "closed"
    /\ ~clients[c].lostSynth
    /\ clients' = [clients EXCEPT ![c].received = Append(@, ConnectionLost),
                                  ![c].lostSynth = TRUE]
    /\ UNCHANGED <<mode, args, pc, client, idx, cmd, exc, last, nin, nclients, tpc, tst>>

\* ------------------------------------------- one-shot room / client command
\* the command a room command posts for one room name
RoomOp(cs, c, command, name) ==
    CASE command = "delete" -> DeleteRoom(cs, c, name)
      [] command = "clear" -> ClearRoom(cs, c, name)
      [] command = "clients" -> ListRoomClients(cs, c, name)

\* process_room_command: `client = CliClient(args)` of the branch taken, or the
\* message 'Expected one or more room names'
ProcessRoomBegin ==
    /\ mode = "room" /\ pc = "start"
    /\ IF args.command = "list" \/ Len(args.name) > 0
       THEN /\ client' = nclients + 1
            /\ nclients' = nclients + 1
            /\ clients' = CliClientInit(clients, nclients + 1)
            /\ pc' = "connect"
            /\ last' = "created"
       ELSE /\ last' = "ExpectedNames"
            /\ pc' = "finally"
            /\ UNCHANGED <<client, nclients, clients>>
    /\ UNCHANGED <<mode, args, idx, cmd, exc, nin, tpc, tst>>

\* process_client_command: `client = CliClient(args)` when the command is 'list'
ProcessClientBegin ==
    /\ mode = "client" /\ pc = "start"
    /\ IF args.command = "list"
       THEN /\ client' = nclients + 1
            /\ nclients' = nclients + 1
            /\ clients' = CliClientInit(clients, nclients + 1)
            /\ pc' = "connect"
            /\ last' = "created"
       ELSE /\ pc' = "finally"
            /\ UNCHANGED <<client, nclients, clients, last>>
    /\ UNCHANGED <<mode, args, idx, cmd, exc, nin, tpc, tst>>

\* `client.connect()` inside the try block: it succeeds, raises ServerError
\* (logged by the except clause) or raises another exception (propagates)
OneShotConnect ==
    /\ mode \in {"room", "client"} /\ pc = "connect"
    /\ \E outcome \in {"ok", "ServerError", "Error"} :
          IF outcome = "ok"
          THEN /\ clients' = Connect(clients, client)
               /\ pc' = "post"
               /\ last' = "connected"
               /\ UNCHANGED exc
          ELSE /\ clients' = ConnectFails(clients, client)
               /\ pc' = "finally"
               /\ last' = outcome
               /\ exc' = IF outcome = "ServerError" THEN "none" ELSE outcome
    /\ idx' = 1
    /\ UNCHANGED <<mode, args, client, cmd, nin, nclients, tpc, tst>>

\* RoomPost with the names taken from the end of the list
RoomPostReversed ==
    /\ mode = "room" /\ pc = "post"
    /\ IF AddCommandRejected(clients, client)
       THEN /\ exc' = "Error"
            /\ last' = "Rejected"
            /\ pc' = "finally"
            /\ UNCHANGED <<clients, idx>>
       ELSE /\ last' = "posted"
            /\ UNCHANGED exc
            /\ IF args.command = "list"
               THEN /\ clients' = ListRooms(clients, client)
                    /\ pc' = "finally"
                    /\ UNCHANGED idx
               ELSE /\ clients' = RoomOp(clients, client, args.command,
                                         args.name[Len(args.name) + 1 - idx])
                    /\ idx' = idx + 1
                    /\ pc' = IF idx = Len(args.name) THEN "finally" ELSE "post"
    /\ UNCHANGED <<mode, args, client, cmd, nin, nclients, tpc, tst>>

\* process_room_command: `client.listRooms()`, or one iteration of
\* `for name in args.name: client.deleteRoom(name)` (clearRoom, listRoomClients)
RoomPost ==
    /\ mode = "room" /\ pc = "post"
    /\ IF AddCommandRejected(clients, client)
       THEN /\ exc' = "Error"
            /\ last' = "Rejected"
            /\ pc' = "finally"
            /\ UNCHANGED <<clients, idx>>
       ELSE /\ last' = "posted"
            /\ UNCHANGED exc
            /\ IF args.command = "list"
               THEN /\ clients' = ListRooms(clients, client)
                    /\ pc' = "finally"
                    /\ UNCHANGED idx
               ELSE /\ clients' = RoomOp(clients, client, args.command, args.name[idx])
                    /\ idx' = idx + 1
                    /\ pc' = IF idx = Len(args.name) THEN "finally" ELSE "post"
    /\ UNCHANGED <<mode, args, client, cmd, nin, nclients, tpc, tst>>

\* process_client_command: `client.listClients()`
ClientPost ==
    /\ mode = "client" /\ pc = "post"
    /\ IF AddCommandRejected(clients, client)
       THEN /\ exc' = "Error"
            /\ last' = "Rejected"
            /\ UNCHANGED clients
       ELSE /\ last' = "posted"
            /\ clients' = ListClients(clients, client)
            /\ UNCHANGED exc
    /\ pc' = "finally"
    /\ UNCHANGED <<mode, args, client, idx, cmd, nin, nclients, tpc, tst>>

\* the finally block: `if client: client.disconnect()`, then the function
\* returns, or the exception that was not caught propagates
OneShotFinally ==
    /\ mode \in {"room", "client"} /\ pc = "finally"
    /\ clients' = IF client # 0 THEN Disconnect(clients, client) ELSE clients
    /\ pc' = IF exc = "none" THEN "done" ELSE "raised"
    /\ UNCHANGED <<mode, args, client, idx, cmd, exc, last, nin, nclients, tpc, tst>>

\* ------------------------------------------------------- interactive loop
\* Resolve with an ambiguous word dispatching the first candidate
ResolveFirstCandidate(line) ==
    LET items == Split(line)
        candidates == Filter(commands, items[1])
    IN  IF items = <<>>
        THEN [status |-> "empty", command |-> <<>>, command_args |-> <<>>]
        ELSE IF Len(candidates) = 0
        THEN [status |-> "NotRecognised", command |-> <<>>, command_args |-> <<>>]
        ELSE [status |-> "ok", command |-> Split(candidates[1])[1],
              command_args |-> Tail(items)]

\* interactive_loop, from `items = user_input.split()` to
\* `command_args = items[1:]`: how a line resolves to a command
Resolve(line) ==
    LET items == Split(line)
        candidates == Filter(commands, items[1])
    IN  IF items = <<>>
        THEN [status |-> "empty", command |-> <<>>, command_args |-> <<>>]
        ELSE IF Len(candidates) = 0
        THEN [status |-> "NotRecognised", command |-> <<>>, command_args |-> <<>>]
        ELSE IF Len(candidates) >= 2
        THEN [status |-> "Ambiguous", command |-> <<>>, command_args |-> <<>>]
        ELSE [status |-> "ok", command |-> Split(candidates[1])[1],
              command_args |-> Tail(items)]

\* the commands of the last else branch that read command_args[0]
NeedsArg(command) ==
    command \in {W_listroomclients, W_join, W_leave, W_setclientname}

\* the commands of the last else branch that post a command
Posts(command) ==
    command \in {W_listrooms, W_listroomclients, W_listjoinedclients,
                 W_listallclients, W_join, W_leave, W_setclientname}

\* the post a command of the last else branch makes
InteractiveOp(cs, c, command, command_args) ==
    CASE command = W_listrooms -> ListRooms(cs, c)
      [] command = W_listroomclients -> ListRoomClients(cs, c, command_args[1])
      [] command = W_listjoinedclients -> ListClients(cs, c)
      [] command = W_listallclients -> ListAllClients(cs, c)
      [] command = W_join -> JoinRoom(cs, c, command_args[1])
      [] command = W_leave -> LeaveRoom(cs, c, command_args[1])
      [] command = W_setclientname -> SetClientName(cs, c, command_args[1])

\* interactive_loop: `client = CliClient(args)`
InteractiveBegin ==
    /\ mode = "interactive" /\ pc = "start"
    /\ client' = nclients + 1
    /\ nclients' = nclients + 1
    /\ clients' = CliClientInit(clients, nclients + 1)
    /\ pc' = "connect"
    /\ last' = "created"
    /\ UNCHANGED <<mode, args, idx, cmd, exc, nin, tpc, tst>>

\* interactive_loop: `client.connect()`, outside any try block
InteractiveConnect ==
    /\ mode = "interactive" /\ pc = "connect"
    /\ \E ok \in BOOLEAN :
          IF ok
          THEN /\ clients' = Connect(clients, client)
               /\ pc' = "prompt"
               /\ last' = "connected"
               /\ UNCHANGED exc
          ELSE /\ clients' = ConnectFails(clients, client)
               /\ pc' = "raised"
               /\ last' = "Error"
               /\ exc' = "Error"
    /\ UNCHANGED <<mode, args, client, idx, cmd, nin, nclients, tpc, tst>>

\* NotConnected with the isConnected() half of the test left out
NotConnectedNoneOnly(cs, cl) == cl = 0

\* the test `client is None or not client.isConnected()`
NotConnected(cs, cl) == cl = 0 \/ ~IsConnected(cs, cl)

\* ConnectCommand with the disconnected client connected again
ConnectCommandReuse ==
    IF NotConnected(clients, client)
    THEN IF client # 0
         THEN /\ clients' = Connect(clients, client)
              /\ last' = "connected"
              /\ UNCHANGED <<client, nclients>>
         ELSE /\ nclients < MaxClients
              /\ client' = nclients + 1
              /\ nclients' = nclients + 1
              /\ clients' = CliClientInit(clients, nclients + 1)
              /\ last' = "created"
    ELSE /\ last' = "AlreadyConnected"
         /\ UNCHANGED <<client, nclients, clients>>

\* interactive_loop, `command == "connect"`: a new CliClient when there is no
\* connected client, else 'Error : already connected'
ConnectCommand ==
    IF NotConnected(clients, client)
    THEN /\ nclients < MaxClients
         /\ client' = nclients + 1
         /\ nclients' = nclients + 1
         /\ clients' = CliClientInit(clients, nclients + 1)
         /\ last' = "created"
    ELSE /\ last' = "AlreadyConnected"
         /\ UNCHANGED <<client, nclients, clients>>

\* interactive_loop: one line is read and resolved; connect, exit and help are
\* carried out; any other command passes the connection test or raises
\* RuntimeError('Not connected, use "connect" first'), printed by the handler
InteractiveInput(line) ==
    /\ mode = "interactive" /\ pc = "prompt"
    /\ nin < MaxInputs
    /\ nin' = nin + 1
    /\ LET r == Resolve(line)
       IN  IF r.status # "ok"
           THEN /\ last' = r.status
                /\ UNCHANGED <<pc, client, cmd, nclients, clients>>
           ELSE /\ cmd' = [command |-> r.command, command_args |-> r.command_args]
                /\ IF r.command = W_connect
                   THEN /\ ConnectCommand
                        /\ UNCHANGED pc
                   ELSE IF r.command = W_exit
                   THEN IF client = 0
                        THEN /\ last' = "AttributeError"
                             /\ UNCHANGED <<pc, client, nclients, clients>>
                        ELSE /\ clients' = [clients EXCEPT ![client].terminate = TRUE]
                             /\ pc' = "done"
                             /\ last' = "exit"
                             /\ UNCHANGED <<client, nclients>>
                   ELSE IF r.command = W_help
                   THEN /\ last' = "Help"
                        /\ UNCHANGED <<pc, client, nclients, clients>>
                   ELSE IF NotConnected(clients, client)
                   THEN /\ last' = "NotConnected"
                        /\ UNCHANGED <<pc, client, nclients, clients>>
                   ELSE /\ pc' = "dispatch"
                        /\ last' = "checked"
                        /\ UNCHANGED <<client, nclients, clients>>
    /\ UNCHANGED <<mode, args, idx, exc, tpc, tst>>

\* interactive_loop: the if/elif chain that follows the connection test; an
\* exception (IndexError from command_args[0], a rejected post) is printed by
\* the handler and the loop goes on
InteractiveDispatch ==
    /\ mode = "interactive" /\ pc = "dispatch"
    /\ pc' = "prompt"
    /\ IF cmd.command = W_disconnect
       THEN /\ clients' = Disconnect(clients, client)
            /\ client' = 0
            /\ last' = "disconnected"
       ELSE IF ~Posts(cmd.command)
       THEN /\ last' = "pass"
            /\ UNCHANGED <<client, clients>>
       ELSE IF NeedsArg(cmd.command) /\ cmd.command_args = <<>>
       THEN /\ last' = "IndexError"
            /\ UNCHANGED <<client, clients>>
       ELSE IF AddCommandRejected(clients, client)
       THEN /\ last' = "Rejected"
            /\ UNCHANGED <<client, clients>>
       ELSE /\ clients' = InteractiveOp(clients, client, cmd.command, cmd.command_args)
            /\ last' = "posted"
            /\ UNCHANGED client
    /\ UNCHANGED <<mode, args, idx, cmd, exc, nin, nclients, tpc, tst>>

\* --------------------------------------------------- the run of cli.py
\* argparse: the sub-command, its `command` choice and its `name` list
ArgsOf(m) ==
    CASE m = "room" ->
           { [command |-> k, name |-> n] :
               k \in {"list", "delete", "clear", "clients"},
               n \in SeqsUpTo(RoomNames, MaxNames) }
      [] m = "client" ->
           { [command |-> k, name |-> <<>>] : k \in {"list", "disconnect"} }
      [] OTHER -> { [command |-> "none", name |-> <<>>] }

\* the test case is not part of a run of cli.py
TstOff == <<>>

Init ==
    /\ mode \in {"room", "client", "interactive"}
    /\ args \in ArgsOf(mode)
    /\ pc = "start"
    /\ client = 0
    /\ idx = 1
    /\ cmd = [command |-> <<>>, command_args |-> <<>>]
    /\ exc = "none"
    /\ last = "none"
    /\ nin = 0
    /\ nclients = 0
    /\ clients = [c \in ClientIds |-> Absent]
    /\ tpc = "off"
    /\ tst = TstOff

MainNext ==
    \/ ProcessRoomBegin
    \/ ProcessClientBegin
    \/ OneShotConnect
    \/ RoomPost
    \/ ClientPost
    \/ OneShotFinally
    \/ InteractiveBegin
    \/ InteractiveConnect
    \/ \E line \in Inputs : InteractiveInput(line)
    \/ InteractiveDispatch

ConsumerNext(c) ==
    \/ ConsumeWhile(c)
    \/ ConsumePoll(c)
    \/ ConsumeSleep(c)
    \/ ConsumeHandle(c)

TransportNext(c) ==
    \/ Transmit(c)
    \/ DetectLost(c)

ServerNext(c) ==
    \/ ServerReply(c)
    \/ ServerClose(c)

Next ==
    \/ MainNext
    \/ \E c \in ClientIds : ConsumerNext(c)
    \/ \E c \in ClientIds : TransportNext(c)
    \/ \E c \in ClientIds : ServerNext(c)

Spec == Init /\ [][Next]_vars

\* the threads of the process are scheduled fairly and the transport task
\* runs; what the user types and what the server does is not constrained
FairSpec ==
    /\ Spec
    /\ \A c \in ClientIds : WF_vars(ConsumerNext(c))
    /\ \A c \in ClientIds : WF_vars(TransportNext(c))
    /\ WF_vars(ProcessRoomBegin \/ ProcessClientBegin \/ OneShotConnect
               \/ RoomPost \/ ClientPost \/ OneShotFinally)
    /\ WF_vars(InteractiveBegin \/ InteractiveConnect \/ InteractiveDispatch)

\* ------------------------------------------------- properties of cli.py
\* every command that entered the outbound queue of a client, in order
Posted(cs, c) == cs[c].sent \o cs[c].pending

IsPrefix(s, t) == Len(s) <= Len(t) /\ SubSeq(t, 1, Len(s)) = s

\* C1: once disconnect() has been called on a client, the consume loop of
\* that client eventually exits
C1_ConsumerStopsAfterDisconnect ==
    \A c \in ClientIds :
        (clients[c].disconnectCalls > 0) ~> (clients[c].cpc = "done")

\* C2: when the consume loop has received CONNECTION_LOST it has called
\* disconnect() before it polls for a further inbound command, and the
\* client is not connected from then on
C2_LostThenDisconnect ==
    \A c \in ClientIds :
        (clients[c].lostSeen > 0 /\ clients[c].cpc # "got")
            => (~IsConnected(clients, c) /\ clients[c].disconnectCalls > 0)

C2_Witness ==
    \E c \in ClientIds :
        /\ clients[c].lostSeen > 0
        /\ clients[c].cpc = "poll"
        /\ clients[c].printed > 1

\* C3: when the server has closed the connection of a connected client whose
\* consume loop runs, and the caller leaves the client alone (no disconnect,
\* no terminate), the consume loop eventually receives CONNECTION_LOST; a
\* poll returns None only when nothing is buffered; and the loop receives
\* CONNECTION_LOST at most once
C3_LostReceivedOnce ==
    /\ \A c \in ClientIds :
          (clients[c].link = "closed" /\ clients[c].connected)
              ~> (\/ clients[c].lostSeen = 1
                  \/ clients[c].terminate
                  \/ clients[c].disconnectCalls > 0)
    /\ [][\A c \in ClientIds :
            (clients[c].cpc = "poll" /\ clients'[c].cpc = "sleep")
                => clients[c].received = <<>>]_vars
    /\ [](\A c \in ClientIds : clients[c].lostSeen <= 1)

C3_Witness ==
    \E c \in ClientIds :
        /\ clients[c].lostSeen = 1
        /\ clients[c].link = "closed"
        /\ clients[c].cpc = "got"
        /\ clients[c].disconnectCalls = 0

\* the main thread is about to execute a statement that posts a command
AtPost ==
    \/ pc = "post"
    \/ /\ pc = "dispatch"
       /\ Posts(cmd.command)
       /\ ~(NeedsArg(cmd.command) /\ cmd.command_args = <<>>)

\* C4: after disconnect() on a client isConnected() is false; a post made
\* on it afterwards raises and enqueues nothing; and in the interactive loop
\* a command other than connect, exit and help entered while there is no
\* connected client raises 'Not connected' and posts nothing
C4_RejectedWhenDisconnected ==
    /\ [](\A c \in ClientIds :
            clients[c].disconnectCalls > 0 => ~IsConnected(clients, c))
    /\ [][\A c \in ClientIds :
            clients[c].disconnectCalls > 0 => Posted(clients', c) = Posted(clients, c)]_vars
    /\ [][(AtPost /\ clients[client].disconnectCalls > 0 /\ last' # last)
            => (last' = "Rejected" /\ pc' \in {"finally", "prompt"})]_vars
    /\ [][(/\ pc = "prompt" /\ nin' # nin
           /\ last' \notin {"empty", "NotRecognised", "Ambiguous"}
           /\ cmd'.command \notin {W_connect, W_exit, W_help}
           /\ (client = 0 \/ ~clients[client].connected))
            => (/\ last' = "NotConnected"
                /\ pc' = "prompt"
                /\ \A c \in ClientIds : Posted(clients', c) = Posted(clients, c))]_vars

C4_Witness ==
    /\ last = "Rejected"
    /\ client # 0
    /\ clients[client].disconnectCalls > 0
    /\ ~IsConnected(clients, client)
    /\ Posted(clients, client) # <<>>

\* the commands a batch room command is to post, one per name, in order
BatchType(command) ==
    CASE command = "delete" -> "DELETE_ROOM"
      [] command = "clear" -> "CLEAR_ROOM"
      [] command = "clients" -> "LIST_ROOM_CLIENTS"

BatchExpected ==
    [j \in 1..Len(args.name) |-> Command(BatchType(args.command), Encode(args.name[j]))]

\* C5: commands enter the outbound queue of a client in the order posted
\* and are only ever appended; a batch room command has at every moment
\* posted a prefix of its per-name commands, and when it has run through
\* without an error it has posted exactly one command per name, in order
C5_BatchOrder ==
    /\ [][\A c \in ClientIds :
            \/ Posted(clients', c) = Posted(clients, c)
            \/ /\ Len(Posted(clients', c)) = Len(Posted(clients, c)) + 1
               /\ IsPrefix(Posted(clients, c), Posted(clients', c))]_vars
    /\ []((mode = "room" /\ args.command # "list" /\ client # 0)
            => /\ IsPrefix(Posted(clients, client), BatchExpected)
               /\ (pc \in {"finally", "done"} /\ last = "posted")
                     => Posted(clients, client) = BatchExpected)

C5_Witness ==
    /\ mode = "room" /\ args.command = "clear" /\ pc = "done"
    /\ Len(args.name) >= 2
    /\ args.name[1] # args.name[2]
    /\ client # 0
    /\ Len(clients[client].sent) = 1
    /\ Len(Posted(clients, client)) = Len(args.name)

\* C6: a post is enabled in every state in which the main thread stands at
\* it, whatever the inbound buffer holds; every step of the consume loop is
\* enabled in every state in which the consumer stands at it, whatever the
\* outbound queue holds; a sleeping consumer has only to wake up
C6_PostAndConsumeNeverWait ==
    /\ (mode = "room" /\ pc = "post") => ENABLED RoomPost
    /\ (mode = "client" /\ pc = "post") => ENABLED ClientPost
    /\ (mode = "interactive" /\ pc = "dispatch") => ENABLED InteractiveDispatch
    /\ \A c \in ClientIds :
          /\ clients[c].cpc = "while" => ENABLED ConsumeWhile(c)
          /\ clients[c].cpc = "poll" => ENABLED ConsumePoll(c)
          /\ clients[c].cpc = "sleep" => ENABLED ConsumeSleep(c)
          /\ clients[c].cpc = "got" => ENABLED ConsumeHandle(c)

C6_Witness ==
    /\ mode = "room" /\ pc = "post"
    /\ clients[client].received # <<>>
    /\ clients[client].pending # <<>>
    /\ clients[client].cpc = "poll"

\* C10: connect() is called on a client only when neither connect() nor
\* disconnect() has been called on it before, and nothing enters the
\* outbound queue of a client once disconnect() has been called on it
C10_NoReuseAfterDisconnect ==
    [][\A c \in ClientIds :
         /\ clients'[c].connectCalls # clients[c].connectCalls
               => (clients[c].connectCalls = 0 /\ clients[c].disconnectCalls = 0)
         /\ clients[c].disconnectCalls > 0
               => Posted(clients', c) = Posted(clients, c)]_vars

C10_Witness ==
    /\ mode = "interactive"
    /\ nclients = 2 /\ client = 2
    /\ clients[1].disconnectCalls > 0
    /\ clients[1].connectCalls = 1
    /\ Posted(clients, 1) # <<>>

\* ============================================================ test case
\* the BlenderApp instances setUp creates, in order: sender, receiver
Blenders == {1, 2}
NumBlenders == 2

Substreams == {"S1"}
Values == {1, 2}

\* a capture log: substream identifier -> commands in arrival order
Logs ==
    UNION { [d -> { q \in SeqsUpTo(Values, MaxLog) : q # <<>> }] : d \in SUBSET Substreams }

\* list.sort on one substream: insertion into the sorted rest
RECURSIVE InsertSorted(_, _)
InsertSorted(x, q) ==
    IF q = <<>> THEN <<x>>
    ELSE IF x <= Head(q) THEN <<x>> \o q
    ELSE <<Head(q)>> \o InsertSorted(x, Tail(q))

RECURSIVE SortedSeq(_)
SortedSeq(q) == IF q = <<>> THEN <<>> ELSE InsertSorted(Head(q), SortedSeq(Tail(q)))

\* Grabber.sort(): every substream sorted by content
SortLog(log) == [d \in DOMAIN log |-> SortedSeq(log[d])]

\* assert_stream_equals: the same substreams, each with the same sequence
StreamEquals(a, b) ==
    /\ DOMAIN a = DOMAIN b
    /\ \A d \in DOMAIN a : a[d] = b[d]

NoGrab == [grabbed |-> FALSE, sorted |-> FALSE, streams |-> <<>>]
NoRoom == [exists |-> FALSE, owner |-> 0, log |-> <<>>]
GrabRooms == {"mixer_grab_sender", "mixer_grab_receiver"}

\* MixerTestCase.__init__ and the parameters of the run
TstInit(join, body) == [
    join |-> join, body |-> body,
    srv |-> "none", gsrv |-> "none",
    proc |-> [b \in Blenders |-> "none"], rc |-> [b \in Blenders |-> 0],
    room |-> [b \in Blenders |-> "none"],
    blenders |-> <<>>,
    quit |-> {}, waited |-> {}, closed |-> {}, killed |-> {},
    rooms |-> [r \in GrabRooms |-> NoRoom],
    grab |-> [w \in {"sender", "receiver"} |-> NoGrab],
    texc |-> "none", result |-> "none",
    k |-> 1, ret |-> "none",
    ev |-> <<>> ]

\* the properties _sender and _receiver
Member(who) == IF who = "sender" THEN tst.blenders[1] ELSE tst.blenders[2]

\* the name an event log entry gives a BlenderApp
BName(b) == IF b = 1 THEN "sender" ELSE "receiver"

Ev(t, op, who, room) == [t EXCEPT !.ev = Append(@, <<op, who, room>>)]

\* ServerProcess.kill()
Kill(state) == IF state = "alive" THEN "killed" ELSE state

\* a collaborator process exits by itself (the user closes it, it crashes)
ProcExit(b) ==
    /\ tpc \notin {"off", "end"}
    /\ tst.proc[b] = "running"
    /\ \E code \in {0, 1} :
          tst' = [tst EXCEPT !.proc[b] = "exited", !.rc[b] = code]
    /\ UNCHANGED <<tpc, mode, args, pc, client, idx, cmd, exc, last, nin, nclients, clients>>

\* setUp: the exception handler, `self.shutdown(); raise`
SetUpFails(t) == [t EXCEPT !.ret = "setUp", !.k = 1, !.result = "error"]

\* setUp: `self._server_process.start(server_args=server_args)`
SetUpServer ==
    /\ tpc = "setUp_server"
    /\ \E ok \in BOOLEAN :
          IF ok
          THEN /\ tst' = Ev([tst EXCEPT !.srv = "alive"], "start", "server", "")
               /\ tpc' = "setUp_blender"
          ELSE /\ tst' = SetUpFails(tst)
               /\ tpc' = "shutdown_quit"
    /\ UNCHANGED <<mode, args, pc, client, idx, cmd, exc, last, nin, nclients, clients>>

\* setUp: `self._blenders.append(blender)` and the next round of the loop
Appended(t) == [t EXCEPT !.blenders = Append(@, t.k), !.k = IF t.k = NumBlenders THEN 1 ELSE t.k + 1]

AfterAppend(t) ==
    IF t.k = NumBlenders THEN t.body ELSE "setUp_blender"

\* setUp: `blender = BlenderApp(...)`, `blender.setup(args)`
SetUpBlender ==
    /\ tpc = "setUp_blender"
    /\ \E ok \in BOOLEAN :
          IF ok
          THEN LET t == Ev([tst EXCEPT !.proc[tst.k] = "running"], "setup", BName(tst.k), "")
               IN  IF tst.join
                   THEN tst' = t /\ tpc' = "setUp_join"
                   ELSE tst' = Appended(t) /\ tpc' = AfterAppend(tst)
          ELSE /\ tst' = SetUpFails(tst)
               /\ tpc' = "shutdown_quit"
    /\ UNCHANGED <<mode, args, pc, client, idx, cmd, exc, last, nin, nclients, clients>>

\* setUp: `blender.connect_and_join_mixer(...)`, then the append
SetUpJoin ==
    /\ tpc = "setUp_join"
    /\ \E ok \in BOOLEAN :
          IF ok /\ tst.proc[tst.k] = "running"
          THEN /\ tst' = Appended(Ev([tst EXCEPT !.room[tst.k] = "default"],
                                     "join", BName(tst.k), "default"))
               /\ tpc' = AfterAppend(tst)
          ELSE /\ tst' = SetUpFails(tst)
               /\ tpc' = "shutdown_quit"
    /\ UNCHANGED <<mode, args, pc, client, idx, cmd, exc, last, nin, nclients, clients>>

\* tearDown: `self.shutdown()`
TearDown ==
    /\ tpc = "tearDown"
    /\ tst' = [tst EXCEPT !.ret = "tearDown", !.k = 1]
    /\ tpc' = "shutdown_quit"
    /\ UNCHANGED <<mode, args, pc, client, idx, cmd, exc, last, nin, nclients, clients>>

\* shutdown: one round of `for blender in self._blenders: blender.quit()`
ShutdownQuit ==
    /\ tpc = "shutdown_quit"
    /\ IF tst.k > Len(tst.blenders)
       THEN tst' = [tst EXCEPT !.k = 1] /\ tpc' = "shutdown_wait"
       ELSE /\ tst' = Ev([tst EXCEPT !.quit = @ \cup {tst.blenders[tst.k]}, !.k = @ + 1],
                         "quit", BName(tst.blenders[tst.k]), "")
            /\ UNCHANGED tpc
    /\ UNCHANGED <<mode, args, pc, client, idx, cmd, exc, last, nin, nclients, clients>>

\* shutdown: one round of `for blender in self._blenders: blender.wait()`;
\* wait() without a timeout returns when the process has exited
ShutdownWait ==
    /\ tpc = "shutdown_wait"
    /\ IF tst.k > Len(tst.blenders)
       THEN tst' = [tst EXCEPT !.k = 1] /\ tpc' = "shutdown_close"
       ELSE /\ tst.proc[tst.blenders[tst.k]] = "exited"
            /\ tst' = Ev([tst EXCEPT !.waited = @ \cup {tst.blenders[tst.k]}, !.k = @ + 1],
                         "wait", BName(tst.blenders[tst.k]), "")
            /\ UNCHANGED tpc
    /\ UNCHANGED <<mode, args, pc, client, idx, cmd, exc, last, nin, nclients, clients>>

\* shutdown: one round of `for blender in self._blenders: blender.close()`
ShutdownClose ==
    /\ tpc = "shutdown_close"
    /\ IF tst.k > Len(tst.blenders)
       THEN tst' = [tst EXCEPT !.k = 1] /\ tpc' = "shutdown_kill"
       ELSE /\ tst' = Ev([tst EXCEPT !.closed = @ \cup {tst.blenders[tst.k]}, !.k = @ + 1],
                         "close", BName(tst.blenders[tst.k]), "")
            /\ UNCHANGED tpc
    /\ UNCHANGED <<mode, args, pc, client, idx, cmd, exc, last, nin, nclients, clients>>

\* shutdown: `self._server_process.kill()`; then setUp re-raises, or the
\* test case ends
ShutdownKill ==
    /\ tpc = "shutdown_kill"
    /\ tst' = Ev([tst EXCEPT !.srv = Kill(@)], "kill", "server", "")
    /\ tpc' = "end"
    /\ UNCHANGED <<mode, args, pc, client, idx, cmd, exc, last, nin, nclients, clients>>

\* BlenderApp.kill()
KillBlender(t, b) ==
    [t EXCEPT !.killed = @ \cup {b},
              !.proc[b] = IF @ = "none" THEN "none" ELSE "exited",
              !.rc[b] = IF t.proc[b] = "running" THEN 9 ELSE @]

\* the test body returned (result "passed" unless it failed before) or raised
BodyEnds(t, result) == [t EXCEPT !.result = IF @ = "none" THEN result ELSE @]

\* assert_user_success: `rc = self._sender.wait(timeout)` and what follows
AusSender ==
    /\ tpc = "assert_user_success"
    /\ IF tst.proc[Member("sender")] = "exited"
       THEN /\ tst' = BodyEnds(KillBlender(tst, Member("receiver")),
                               IF tst.rc[Member("sender")] # 0 THEN "failure" ELSE "passed")
            /\ tpc' = "tearDown"
       ELSE /\ tpc' = "aus_receiver"
            /\ UNCHANGED tst
    /\ UNCHANGED <<mode, args, pc, client, idx, cmd, exc, last, nin, nclients, clients>>

\* AusReceiver without `self._sender.kill()`
AusReceiverLeavesSender ==
    /\ tpc = "aus_receiver"
    /\ IF tst.proc[Member("receiver")] = "exited"
       THEN /\ tst' = BodyEnds(tst, IF tst.rc[Member("receiver")] # 0 THEN "failure" ELSE "passed")
            /\ tpc' = "tearDown"
       ELSE /\ tpc' = "assert_user_success"
            /\ UNCHANGED tst
    /\ UNCHANGED <<mode, args, pc, client, idx, cmd, exc, last, nin, nclients, clients>>

\* assert_user_success: `rc = self._receiver.wait(timeout)` and what follows
AusReceiver ==
    /\ tpc = "aus_receiver"
    /\ IF tst.proc[Member("receiver")] = "exited"
       THEN /\ tst' = BodyEnds(KillBlender(tst, Member("sender")),
                               IF tst.rc[Member("receiver")] # 0 THEN "failure" ELSE "passed")
            /\ tpc' = "tearDown"
       ELSE /\ tpc' = "assert_user_success"
            /\ UNCHANGED tst
    /\ UNCHANGED <<mode, args, pc, client, idx, cmd, exc, last, nin, nclients, clients>>

\* ------------------------------------------------------- assert_matches
\* the room a replica uploads to: "mixer_grab_sender", "mixer_grab_receiver"
UploadRoom(who) == IF who = "sender" THEN "mixer_grab_sender" ELSE "mixer_grab_receiver"

\* GrabbedRoom with both Grabbers reading the sender's room
GrabbedRoomSender(who) == "mixer_grab_sender"

\* the room name given to Grabber.grab for a replica
GrabbedRoom(who) == IF who = "sender" THEN "mixer_grab_sender" ELSE "mixer_grab_receiver"

\* assert_matches: `self._sender.disconnect_mixer()`, then
\* `self._receiver.disconnect_mixer()`; an exception ends the test body
AmDisconnect(who) ==
    /\ tpc = IF who = "sender" THEN "assert_matches" ELSE "am_disconnect_receiver"
    /\ \E ok \in BOOLEAN :
          IF ok /\ tst.proc[Member(who)] = "running"
          THEN /\ tst' = Ev([tst EXCEPT !.room[Member(who)] = "none"],
                            "disconnect", who, tst.room[Member(who)])
               /\ tpc' = IF who = "sender" THEN "am_disconnect_receiver" ELSE "am_kill"
          ELSE /\ tst' = BodyEnds(tst, "error")
               /\ tpc' = "tearDown"
    /\ UNCHANGED <<mode, args, pc, client, idx, cmd, exc, last, nin, nclients, clients>>

\* AmKill with the test's server left running
AmKillKeepsServer ==
    /\ tpc = "am_kill"
    /\ tst' = Ev(tst, "kill", "server", "")
    /\ tpc' = "am_start"
    /\ UNCHANGED <<mode, args, pc, client, idx, cmd, exc, last, nin, nclients, clients>>

\* assert_matches: `self._server_process.kill()`
AmKill ==
    /\ tpc = "am_kill"
    /\ tst' = Ev([tst EXCEPT !.srv = Kill(@)], "kill", "server", "")
    /\ tpc' = "am_start"
    /\ UNCHANGED <<mode, args, pc, client, idx, cmd, exc, last, nin, nclients, clients>>

\* assert_matches: `server_process = ServerProcess(); server_process.start()`
AmStart ==
    /\ tpc = "am_start"
    /\ \E ok \in BOOLEAN :
          IF ok
          THEN /\ tst' = Ev([tst EXCEPT !.gsrv = "alive"], "start", "grab_server", "")
               /\ tpc' = "am_upload_sender"
          ELSE /\ tst' = BodyEnds(tst, "error")
               /\ tpc' = "tearDown"
    /\ UNCHANGED <<mode, args, pc, client, idx, cmd, exc, last, nin, nclients, clients>>

\* assert_matches: `connect_and_join_mixer(room, keep_room_open=True, ...)`:
\* the replica joins its grab room and deposits its command history
AmUpload(who) ==
    /\ tpc = IF who = "sender" THEN "am_upload_sender" ELSE "am_upload_receiver"
    /\ \E ok \in BOOLEAN, log \in Logs :
          IF ok /\ tst.proc[Member(who)] = "running"
          THEN /\ tst' = Ev([tst EXCEPT
                               !.room[Member(who)] = UploadRoom(who),
                               !.rooms[UploadRoom(who)] =
                                   [exists |-> TRUE, owner |-> Member(who), log |-> log]],
                            "upload", who, UploadRoom(who))
               /\ tpc' = IF who = "sender" THEN "am_leave_sender" ELSE "am_leave_receiver"
          ELSE /\ tst' = [tst EXCEPT !.texc = "error"]
               /\ tpc' = "am_finally"
    /\ UNCHANGED <<mode, args, pc, client, idx, cmd, exc, last, nin, nclients, clients>>

\* assert_matches: `disconnect_mixer()` after the upload; the room stays open
AmLeave(who) ==
    /\ tpc = IF who = "sender" THEN "am_leave_sender" ELSE "am_leave_receiver"
    /\ \E ok \in BOOLEAN :
          IF ok /\ tst.proc[Member(who)] = "running"
          THEN /\ tst' = Ev([tst EXCEPT !.room[Member(who)] = "none"],
                            "disconnect", who, tst.room[Member(who)])
               /\ tpc' = IF who = "sender" THEN "am_grab_sender" ELSE "am_grab_receiver"
          ELSE /\ tst' = [tst EXCEPT !.texc = "error"]
               /\ tpc' = "am_finally"
    /\ UNCHANGED <<mode, args, pc, client, idx, cmd, exc, last, nin, nclients, clients>>

\* Grabber.grab(host, port, room_name): the history of the room, in arrival
\* order; RuntimeError when the capture cannot be made
GrabFails(t, room) == t.gsrv # "alive" \/ ~t.rooms[room].exists

\* AmGrab with the RuntimeError of grab swallowed
AmGrabSwallows(who) ==
    /\ tpc = IF who = "sender" THEN "am_grab_sender" ELSE "am_grab_receiver"
    /\ \E ok \in BOOLEAN :
          IF ok /\ ~GrabFails(tst, GrabbedRoom(who))
          THEN /\ tst' = Ev([tst EXCEPT !.grab[who] =
                               [grabbed |-> TRUE, sorted |-> FALSE,
                                streams |-> tst.rooms[GrabbedRoom(who)].log]],
                            "grab", who, GrabbedRoom(who))
               /\ tpc' = IF who = "sender" THEN "am_sort_sender" ELSE "am_sort_receiver"
          ELSE /\ tst' = Ev(tst, "grab_failed", who, GrabbedRoom(who))
               /\ tpc' = IF who = "sender" THEN "am_sort_sender" ELSE "am_sort_receiver"
    /\ UNCHANGED <<mode, args, pc, client, idx, cmd, exc, last, nin, nclients, clients>>

\* assert_matches: `grabber = Grabber()`, `grabber.grab(host, port, room)`;
\* RuntimeError becomes `raise self.failureException(*e.args)`
AmGrab(who) ==
    /\ tpc = IF who = "sender" THEN "am_grab_sender" ELSE "am_grab_receiver"
    /\ \E ok \in BOOLEAN :
          IF ok /\ ~GrabFails(tst, GrabbedRoom(who))
          THEN /\ tst' = Ev([tst EXCEPT !.grab[who] =
                               [grabbed |-> TRUE, sorted |-> FALSE,
                                streams |-> tst.rooms[GrabbedRoom(who)].log]],
                            "grab", who, GrabbedRoom(who))
               /\ tpc' = IF who = "sender" THEN "am_sort_sender" ELSE "am_sort_receiver"
          ELSE /\ tst' = Ev([tst EXCEPT !.texc = "failure"],
                            "grab_failed", who, GrabbedRoom(who))
               /\ tpc' = "am_finally"
    /\ UNCHANGED <<mode, args, pc, client, idx, cmd, exc, last, nin, nclients, clients>>

\* assert_matches: `sender_grabber.sort()`, `receiver_grabber.sort()`
AmSort(who) ==
    /\ tpc = IF who = "sender" THEN "am_sort_sender" ELSE "am_sort_receiver"
    /\ tst' = Ev([tst EXCEPT !.grab[who].streams = SortLog(@),
                             !.grab[who].sorted = TRUE],
                 "sort", who, "")
    /\ tpc' = IF who = "sender" THEN "am_upload_receiver" ELSE "am_finally"
    /\ UNCHANGED <<mode, args, pc, client, idx, cmd, exc, last, nin, nclients, clients>>

\* assert_matches: `finally: server_process.kill()`; an exception raised in
\* the try block then propagates out of assert_matches
AmFinally ==
    /\ tpc = "am_finally"
    /\ LET t == Ev([tst EXCEPT !.gsrv = Kill(@)], "kill", "grab_server", "")
       IN  IF tst.texc = "none"
           THEN tst' = t /\ tpc' = "am_compare"
           ELSE tst' = BodyEnds(t, tst.texc) /\ tpc' = "tearDown"
    /\ UNCHANGED <<mode, args, pc, client, idx, cmd, exc, last, nin, nclients, clients>>

\* assert_matches: `self.assert_stream_equals(s, r)`
AmCompare ==
    /\ tpc = "am_compare"
    /\ tst' = BodyEnds(Ev(tst, "compare", "", ""),
                       IF StreamEquals(tst.grab["sender"].streams, tst.grab["receiver"].streams)
                       THEN "passed" ELSE "failure")
    /\ tpc' = "tearDown"
    /\ UNCHANGED <<mode, args, pc, client, idx, cmd, exc, last, nin, nclients, clients>>

\* ------------------------------------------------- the run of a test case
TestInit ==
    /\ mode = "test"
    /\ args = [command |-> "none", name |-> <<>>]
    /\ pc = "off"
    /\ client = 0
    /\ idx = 1
    /\ cmd = [command |-> <<>>, command_args |-> <<>>]
    /\ exc = "none"
    /\ last = "none"
    /\ nin = 0
    /\ nclients = 0
    /\ clients = [c \in ClientIds |-> Absent]
    /\ tpc = "setUp_server"
    /\ \E join \in BOOLEAN, body \in {"assert_matches", "assert_user_success"} :
          tst = TstInit(join, body)

RunnerNext ==
    \/ SetUpServer
    \/ SetUpBlender
    \/ SetUpJoin
    \/ TearDown
    \/ ShutdownQuit
    \/ ShutdownWait
    \/ ShutdownClose
    \/ ShutdownKill
    \/ AusSender
    \/ AusReceiver
    \/ \E who \in {"sender", "receiver"} : AmDisconnect(who)
    \/ AmKill
    \/ AmStart
    \/ \E who \in {"sender", "receiver"} : AmUpload(who)
    \/ \E who \in {"sender", "receiver"} : AmLeave(who)
    \/ \E who \in {"sender", "receiver"} : AmGrab(who)
    \/ \E who \in {"sender", "receiver"} : AmSort(who)
    \/ AmFinally
    \/ AmCompare

TestNext ==
    \/ RunnerNext
    \/ \E b \in Blenders : ProcExit(b)

TestSpec == TestInit /\ [][TestNext]_vars

\* the test runner keeps running; the collaborator processes are not constrained
TestFairSpec == TestSpec /\ WF_vars(RunnerNext)

\* ------------------------------------------- properties of the test case
\* the place of the first event <<op, who, _>> of the log, 0 if there is none
PosOp(op, who) ==
    LET hits == { i \in 1..Len(tst.ev) : tst.ev[i][1] = op /\ tst.ev[i][2] = who }
    IN  IF hits = {} THEN 0 ELSE CHOOSE i \in hits : \A j \in hits : i <= j

\* the place of the first event <<"disconnect", who, room>>, 0 if there is none
PosLeave(who, room) ==
    LET hits == { i \in 1..Len(tst.ev) : tst.ev[i] = <<"disconnect", who, room>> }
    IN  IF hits = {} THEN 0 ELSE CHOOSE i \in hits : \A j \in hits : i <= j

CountOp(op, who) ==
    Cardinality({ i \in 1..Len(tst.ev) : tst.ev[i][1] = op /\ tst.ev[i][2] = who })

InShutdown == tpc \in {"shutdown_quit", "shutdown_wait", "shutdown_close", "shutdown_kill"}
InAssertUserSuccess == tpc \in {"assert_user_success", "aus_receiver"}

\* C7: in assert_matches each replica joins its own grab room in
\* keep-room-open mode, then disconnects, then the Grabber grabs that same
\* room, then the Grabber's log is sorted; the comparison runs after both
\* logs were grabbed and sorted; the two grab rooms are distinct and each
\* Grabber holds the sorted history its own replica uploaded
C7_UploadGrabSortCompare ==
    /\ \A who \in {"sender", "receiver"} :
          LET u == PosOp("upload", who)
              g == PosOp("grab", who)
              s == PosOp("sort", who)
              c == PosOp("compare", "")
          IN  /\ CountOp("upload", who) <= 1 /\ CountOp("grab", who) <= 1
              /\ CountOp("sort", who) <= 1
              /\ u > 0 => tst.ev[u][3] \in GrabRooms
              /\ g > 0 => /\ u > 0
                          /\ tst.ev[g][3] = tst.ev[u][3]
                          /\ PosLeave(who, tst.ev[u][3]) > u
                          /\ PosLeave(who, tst.ev[u][3]) < g
                          /\ tst.rooms[tst.ev[g][3]].owner = Member(who)
              /\ s > 0 => (g > 0 /\ g < s)
              /\ c > 0 => /\ s > 0 /\ s < c
                          /\ tst.grab[who].streams = SortLog(tst.rooms[tst.ev[u][3]].log)
    /\ (PosOp("upload", "sender") > 0 /\ PosOp("upload", "receiver") > 0)
          => tst.ev[PosOp("upload", "sender")][3] # tst.ev[PosOp("upload", "receiver")][3]

C7_Witness ==
    /\ tpc = "end"
    /\ PosOp("compare", "") > 0
    /\ "S1" \in DOMAIN tst.rooms["mixer_grab_sender"].log
    /\ tst.rooms["mixer_grab_sender"].log["S1"] = <<2, 1>>
    /\ tst.grab["sender"].streams # tst.grab["receiver"].streams

\* C8: when a grab fails with RuntimeError, assert_matches ends as a test
\* failure, nothing is compared, and no upload, disconnect, grab or sort
\* follows the failed grab
C8_GrabFailureIsTestFailure ==
    \A who \in {"sender", "receiver"} :
        LET f == PosOp("grab_failed", who)
        IN  f > 0 =>
              /\ \A i \in (f + 1)..Len(tst.ev) :
                    tst.ev[i][1] \notin {"upload", "disconnect", "grab", "grab_failed",
                                         "sort", "compare"}
              /\ tst.grab[who] = NoGrab
              /\ tpc \in {"am_finally", "tearDown", "end"} \/ InShutdown
              /\ tpc # "am_finally" => tst.result = "failure"

C8_Witness ==
    /\ tpc = "end"
    /\ PosOp("grab_failed", "receiver") > 0
    /\ tst.grab["sender"].sorted
    /\ tst.result = "failure"

\* C9: assert_user_success and shutdown always terminate, whatever the
\* collaborator processes do
C9_OrchestrationTerminates ==
    /\ [](InAssertUserSuccess => <>(~InAssertUserSuccess))
    /\ [](InShutdown => <>(~InShutdown))

\* ------------------------------------------ further properties of cli.py
\* C11: the consume loop of a client executes consume_one only after
\* connect() has been called on that client
C11_ConsumeOnlyAfterConnect ==
    [][\A c \in ClientIds :
         (clients[c].cpc = "poll" /\ clients'[c].cpc \in {"sleep", "got"})
             => clients[c].connectCalls > 0]_vars

\* a one-shot command that created a client has returned or propagated
OneShotOver == mode \in {"room", "client"} /\ pc \in {"done", "raised"} /\ client # 0

\* C12: when a one-shot command that created a client returns or propagates,
\* disconnect() has been called on the client, the client is not connected,
\* and its consume loop terminates
C12_OneShotLeavesClientStopped ==
    /\ [](OneShotOver => (/\ clients[client].disconnectCalls > 0
                          /\ ~IsConnected(clients, client)))
    /\ \A c \in ClientIds :
          (OneShotOver /\ client = c) ~> (clients[c].cpc = "done")


\* ------------------------------------ further properties of the test case
\* the steps of assert_matches between the start of the grab server and the
\* finally block
GrabPhase == {"am_upload_sender", "am_leave_sender", "am_grab_sender", "am_sort_sender",
              "am_upload_receiver", "am_leave_receiver", "am_grab_receiver",
              "am_sort_receiver", "am_finally"}

\* C13: in assert_matches both collaborators are disconnected before the
\* test's server is killed, the grab server is started only after that kill,
\* the grab server is alive only inside the grab phase (so it has been killed
\* on every path out of it and before any comparison), at most one server
\* process is alive at any time and none is alive when the run has ended
C13_ServerLifetimes ==
    /\ ~(tst.srv = "alive" /\ tst.gsrv = "alive")
    /\ (tpc = "am_start") =>
          /\ PosOp("disconnect", "sender") # 0
          /\ PosOp("disconnect", "receiver") # 0
          /\ PosOp("disconnect", "sender") < PosOp("kill", "server")
          /\ PosOp("disconnect", "receiver") < PosOp("kill", "server")
          /\ tst.srv # "alive"
    /\ (PosOp("start", "grab_server") # 0) =>
          /\ PosOp("kill", "server") # 0
          /\ PosOp("kill", "server") < PosOp("start", "grab_server")
    /\ (tst.gsrv = "alive") => tpc \in GrabPhase
    /\ (PosOp("compare", "") # 0) =>
          /\ PosOp("kill", "grab_server") # 0
          /\ PosOp("kill", "grab_server") < PosOp("compare", "")
    /\ (tpc = "end") => (tst.srv # "alive" /\ tst.gsrv # "alive")

\* setUp, assert_matches with a comparison, and tearDown have all run
C13_Witness ==
    /\ tpc = "end"
    /\ tst.ret = "tearDown"
    /\ PosOp("compare", "") # 0
    /\ PosOp("start", "grab_server") # 0
    /\ CountOp("kill", "server") = 2


\* the collaborator assert_user_success polls at this step, and the other one
Polled == IF tpc = "assert_user_success" THEN "sender" ELSE "receiver"
NotPolled == IF tpc = "assert_user_success" THEN "receiver" ELSE "sender"

\* C14: each step of assert_user_success polls the sender, then the receiver,
\* then the sender again; it goes on exactly when the polled process has not
\* exited; when it has, the method ends at once, returning normally iff the
\* observed exit code is 0 and failing the test otherwise, with the other
\* collaborator killed
C14_UserSuccess ==
    [][(InAssertUserSuccess /\ tpc' # tpc) =>
          /\ tpc' \in {"assert_user_success", "aus_receiver", "tearDown"}
          /\ (tpc' = "aus_receiver") => (tpc = "assert_user_success")
          /\ (tpc' = "tearDown") <=> (tst.proc[Member(Polled)] = "exited")
          /\ (tpc' # "tearDown") => (tst' = tst)
          /\ (tpc' = "tearDown") =>
                /\ tst.result = "none"
                /\ (tst'.result = "passed") <=> (tst.rc[Member(Polled)] = 0)
                /\ (tst'.result = "failure") <=> (tst.rc[Member(Polled)] # 0)
                /\ Member(NotPolled) \in tst'.killed
                /\ tst'.proc[Member(NotPolled)] = "exited"
                /\ tst'.rc[Member(Polled)] = tst.rc[Member(Polled)]]_vars

\* the receiver was seen to have exited with a non-zero code while the sender
\* still ran: the test failed and the sender was killed
C14_Witness ==
    /\ tst.body = "assert_user_success"
    /\ tpc = "tearDown"
    /\ tst.result = "failure"
    /\ tst.rc[Member("receiver")] = 1
    /\ tst.rc[Member("sender")] = 9
    /\ Member("sender") \in tst.killed


\* ------------------------------------ further properties of the interactive loop
\* the loop waits for a line of input
AtPrompt == mode = "interactive" /\ pc = "prompt" /\ nin < MaxInputs

\* C15: at the prompt, in any connection state, the line 'exit' ends the loop,
\* setting the terminate flag of the current client if there is one, and the
\* line 'help' prints the list of allowed commands and posts nothing
C15_ExitEndsHelpPrints ==
    AtPrompt =>
        /\ ENABLED (/\ InteractiveInput(W_exit)
                    /\ pc' = "done"
                    /\ (client # 0) => clients'[client].terminate)
        /\ ENABLED (/\ InteractiveInput(W_help)
                    /\ last' = "Help"
                    /\ pc' = "prompt"
                    /\ clients' = clients)


\* the entries of the command list that the first word of a line is a prefix of
Matching(line) ==
    IF Split(line) = <<>> THEN {}
    ELSE { i \in 1..Len(commands) : StartsWith(commands[i], Split(line)[1]) }

\* the command name of the one entry a line matches
MatchedName(line) == Split(commands[CHOOSE i \in Matching(line) : TRUE])[1]

\* C16: a step of the loop that reads a line whose first word is a prefix of
\* exactly one entry of the command list dispatches the command name of that
\* entry; a step that reads a line matching no entry or several entries posts
\* nothing and leaves the client variable, the clients (connection state,
\* terminate flag, queues) and the place in the loop unchanged
C16_UniquePrefixDispatch ==
    [][\A line \in Inputs :
          InteractiveInput(line) =>
              IF Cardinality(Matching(line)) = 1
              THEN cmd'.command = MatchedName(line)
              ELSE /\ client' = client
                   /\ clients' = clients
                   /\ pc' = pc
                   /\ cmd' = cmd
                   /\ nclients' = nclients]_vars

\* the word 'listroomc', a prefix of the one entry 'listroomclients <roomname>',
\* has dispatched listroomclients
C16_Witness ==
    /\ mode = "interactive"
    /\ pc = "dispatch"
    /\ cmd.command = W_listroomclients
    /\ cmd.command_args = <<>>
    /\ Cardinality(Matching(<<"l">>)) >= 2
    /\ Matching(<<"x">>) = {}


\* ------------------------------------------------ further properties of setUp
\* C17: when setUp has failed and its handler has run shutdown, the server
\* process is not alive and every BlenderApp that setUp had started has had
\* quit, wait and close called on it and is not running
C17_SetUpFailureCleansUp ==
    (tpc = "end" /\ tst.ret = "setUp") =>
        /\ tst.srv # "alive"
        /\ \A b \in Blenders :
              (PosOp("setup", BName(b)) # 0) =>
                  /\ b \in tst.quit
                  /\ b \in tst.waited
                  /\ b \in tst.closed
                  /\ tst.proc[b] # "running"


\* --------------------------------- further properties of the one-shot commands
\* C18: when the finally block of a one-shot command disconnects a client whose
\* connection to the server is up, every command the client posted has been
\* transmitted and its reply has been received and printed by the consume loop
C18_RepliesPrintedBeforeDisconnect ==
    [][(/\ mode \in {"room", "client"}
        /\ pc = "finally" /\ pc' # "finally"
        /\ client # 0
        /\ clients[client].connected
        /\ clients[client].link = "up")
            => /\ clients[client].pending = <<>>
               /\ clients[client].replied = Len(clients[client].sent)
               /\ clients[client].printed = Len(clients[client].sent)
               /\ clients[client].received = <<>>]_vars


\* the loop reads a line that resolves to the 'connect' command
ReadsConnect == mode = "interactive" /\ pc = "prompt" /\ nin' = nin + 1 /\ cmd'.command = W_connect

\* C19: the 'connect' command is accepted only when there is no connected
\* client, else it reports 'already connected' and changes nothing; at most one
\* client is connected at any time; and after an accepted 'connect' the current
\* client is connected
C19_ConnectGivesConnectedClient ==
    [][/\ Cardinality({ c \in ClientIds : clients'[c].connected }) <= 1
       /\ (ReadsConnect /\ last' = "created") =>
             /\ client = 0 \/ ~clients[client].connected
             /\ client' # 0
             /\ clients'[client'].connected
       /\ (ReadsConnect /\ last' = "AlreadyConnected") =>
             /\ client # 0
             /\ clients[client].connected
             /\ client' = client
             /\ clients' = clients]_vars

====
